---- MODULE Spec2Model ----
(***************************************************************************)
(* eval.py of MaskFaceRecog: the evaluation script of a face-verification  *)
(* model.  The script parses three flags, seeds the generators, loads the  *)
(* data and a checkpoint, runs the network over every batch to accumulate  *)
(* genuine and impostor similarity scores, hands the two lists to          *)
(* evaluate_metrics and serialises the returned dictionary.                *)
(*                                                                         *)
(* Numbers.  Pixels are integers 0..255; a normalised pixel is an exact    *)
(* rational kept as a numerator over PixDen.  Embeddings are vectors of    *)
(* integers; a normalised embedding and a score are fixed-point numbers    *)
(* with Scale units to 1.0, rounded the way the operators below state.     *)
(* Strings (paths, flag values) are sequences of tokens in which the       *)
(* separator "/" is always a token of its own.                             *)
(***************************************************************************)
EXTENDS Integers, Sequences, FiniteSets, TLC

VARIABLES
    argv,            \* the command line: a record of the flags given
    dataset,         \* what the data loader yields: a sequence of batches
    cuda_available,  \* torch.cuda.is_available()
    turn,            \* the run that takes the next step
    pc,              \* per run: the statement about to execute
    args,            \* per run: the parsed arguments
    device,          \* per run: "cpu" / "cuda" / "unset"
    rng,             \* per run: the generators' states, [cpu, cuda]
    logger,          \* per run: [path, lines] of the logging handler
    test_loader,     \* per run: the data loader
    net,             \* per run: the model
    it,              \* per run: batches fetched from the loader so far
    batch,           \* per run: the batch being processed
    emb,             \* per run: gen_emb1, gen_emb2, imp_emb1, imp_emb2
    dist,            \* per run: g_dist, i_dist
    gscores,         \* per run: genuine scores accumulated
    iscores,         \* per run: impostor scores accumulated
    test_metrics,    \* per run: the dictionary evaluate returned
    io,              \* per run: [reads, writes] on the file system
    calls,           \* per run: invocations of the external functions
    hist,            \* per run: the score lists embedding_dist returned, in order
    trace            \* per run: the statements completed, in order

vars == << argv, dataset, cuda_available, turn, pc, args, device, rng, logger,
           test_loader, net, it, batch, emb, dist, gscores, iscores,
           test_metrics, io, calls, hist, trace >>

----------------------------------------------------------------------------
(* Bounds of the model *)

\* batches the data loader yields at most
MaxBatches == 2

\* states a generator can be in before it is seeded
MaxEntropy == 2

----------------------------------------------------------------------------
(* Program constants *)

SEED == 230
batch_size == 64
workers == 2
identities == 601
MaxPixel == 255

\* units of a normalised pixel: (v/255 - 0.5)/0.5 = (4v - 510)/510
PixDen == 510
\* fixed-point units of 1.0 for embeddings and scores
Scale == 100

----------------------------------------------------------------------------
(* Arithmetic helpers *)

Abs(x) == IF x < 0 THEN -x ELSE x

Sign(x) == IF x < 0 THEN -1 ELSE 1

\* division rounding toward zero
TruncDiv(a, b) == Sign(a) * Sign(b) * (Abs(a) \div Abs(b))

RECURSIVE SqrtSearch(_, _, _)
SqrtSearch(n, lo, hi) ==
    IF lo >= hi THEN lo
    ELSE LET mid == (lo + hi + 1) \div 2
         IN  IF mid * mid <= n THEN SqrtSearch(n, mid, hi)
                               ELSE SqrtSearch(n, lo, mid - 1)

\* floor of the square root
Isqrt(n) == SqrtSearch(n, 0, IF n < 40000 THEN n ELSE 40000)

RECURSIVE SumSeq(_)
SumSeq(s) == IF s = << >> THEN 0 ELSE Head(s) + SumSeq(Tail(s))

Last(s) == s[Len(s)]

IsPrefix(s, t) == Len(s) <= Len(t) /\ SubSeq(t, 1, Len(s)) = s

----------------------------------------------------------------------------
(* Paths: os.path.join and the string formatting of the main block *)

Sep == "/"

PathJoin(a, b) ==
    IF b # << >> /\ Head(b) = Sep THEN b
    ELSE IF a = << >> \/ Last(a) = Sep THEN a \o b
    ELSE a \o << Sep >> \o b

DefaultDataDir == << "data", "/", "val" >>
DefaultModelDir == << "result", "/", "base_model" >>
DefaultPretrained == << "last" >>

LogPath(a) == PathJoin(a.model_dir, << "test.log" >>)

PretrainPath(a) == PathJoin(a.model_dir, a.pretrained \o << ".pth.tar" >>)

\* a metrics file named after the default checkpoint whatever was loaded
SavePathFixed(a) == PathJoin(a.model_dir, << "test_metrics_" >> \o DefaultPretrained \o << ".json" >>)

SavePath(a) == PathJoin(a.model_dir, << "test_metrics_" >> \o a.pretrained \o << ".json" >>)

\* a flag of the command line: given with a value, or absent
Flag(v) == [ given |-> TRUE, value |-> v ]
NoFlag == [ given |-> FALSE, value |-> << >> ]

\* lines 18-25 and 112: each flag's value, or its default when absent
ParseArgs(av) ==
    [ data_dir   |-> IF av.data_dir.given THEN av.data_dir.value ELSE DefaultDataDir,
      model_dir  |-> IF av.model_dir.given THEN av.model_dir.value ELSE DefaultModelDir,
      pretrained |-> IF av.pretrained.given THEN av.pretrained.value ELSE DefaultPretrained ]

----------------------------------------------------------------------------
(* generate_embeddings: pixel normalisation and the network *)

\* the normalisation without the centring (data / 255) / 0.5
NormalizePixelUncentred(v) == (2 * v) * 2

\* img = ((data / 255) - 0.5) / 0.5, in units of 1/PixDen:
\* data / 255 is 2v/510, minus 0.5 is minus 255/510, over 0.5 is times 2
NormalizePixel(v) == ((2 * v) - (PixDen \div 2)) * 2

\* what the network can put out for a row: integer vectors, the zero vector
\* and vectors of any length among them
EmbedTable ==
    << << 3, 4 >>, << -3, -4 >>, << 0, 0 >>, << 5, 0 >>, << 1, 1 >>,
       << -4, 3 >>, << 0, -7 >>, << 6, 8 >>, << -1, 2 >> >>

RngMod == 64

\* the generator's state after one draw
Advance(g) == (5 * g + 3) % RngMod

WeightsHash(w) == IF w.source = "checkpoint" THEN Len(w.path) ELSE w.seed

\* FocusFace.forward on one row: a pair << logits, embedding >>, a function of
\* the weights, the input, the target (unless in inference mode) and the
\* generator of the device the network is on
Net(w, img, target, inference, g) ==
    LET n == Len(EmbedTable)
        k == ((img + PixDen) \div 128 + WeightsHash(w) + g) % n
        c == (k + (IF inference THEN 0 ELSE target) + 1) % n
    IN  << EmbedTable[c + 1], EmbedTable[k + 1] >>

\* generate_embeddings on a batch of rows: one forward pass, row by row
GenerateEmbeddings(w, target, data, g) ==
    [ i \in 1..Len(data) |-> Net(w, NormalizePixel(data[i]), target[i], TRUE, g)[2] ]

----------------------------------------------------------------------------
(* normalize and embedding_dist *)

SumSq(v) == SumSeq([ k \in 1..Len(v) |-> v[k] * v[k] ])

\* the L2 norm of an integer vector in fixed point, rounded down
NormOf(v) == Isqrt(SumSq(v) * Scale * Scale)

\* a row left at its own length
NormalizeRowNone(v) == [ k \in 1..Len(v) |-> v[k] * Scale ]

\* torch.nn.functional.normalize on a row: v / max(||v||, eps); eps stands
\* below the fixed-point resolution, so only a zero norm is replaced
NormalizeRow(v) ==
    LET nrm == NormOf(v)
        den == IF nrm = 0 THEN 1 ELSE nrm
    IN  [ k \in 1..Len(v) |-> TruncDiv(v[k] * Scale * Scale, den) ]

Normalize(e) == [ i \in 1..Len(e) |-> NormalizeRow(e[i]) ]

\* torch.cdist of two single rows (p = 2), rounded down
Cdist(a, b) == Isqrt(SumSq([ k \in 1..Len(a) |-> a[k] - b[k] ]))

\* sim = 1 - cdist(a, b) / 2
Sim(a, b) == Scale - (Cdist(a, b) \div 2)

\* every row of embed1 against the first row of embed2
EmbeddingDistFirstRow(embed1, embed2) ==
    [ i \in 1..Len(embed1) |-> Sim(embed1[i], embed2[1]) ]

\* embedding_dist: one score per row of embed1, row i against row i
EmbeddingDist(embed1, embed2) ==
    [ i \in 1..Len(embed1) |-> Sim(embed1[i], embed2[i]) ]

----------------------------------------------------------------------------
(* evaluate_metrics (metrics.py): the verification metrics of two score lists *)

MetricKeys == { "EER", "AUC", "g-mean", "i-mean", "FMR100", "FMR10" }

Mean(s) == IF s = << >> THEN 0 ELSE SumSeq(s) \div Len(s)

Range(s) == { s[i] : i \in 1..Len(s) }

\* share (in Scale units) of the n scores of a list that the set of indices hits holds
Share(hits, n) == IF n = 0 THEN 0 ELSE (Cardinality(hits) * Scale) \div n

FMR(is, t) == Share({ i \in 1..Len(is) : is[i] >= t }, Len(is))

FNMR(gs, t) == Share({ i \in 1..Len(gs) : gs[i] < t }, Len(gs))

Thresholds(gs, is) == Range(gs) \cup Range(is) \cup { Scale + 1 }

MinOf(S) == CHOOSE x \in S : \A y \in S : x <= y

MaxOf2(a, b) == IF a >= b THEN a ELSE b

FMRAt(gs, is, limit) ==
    MinOf({ FNMR(gs, t) : t \in { u \in Thresholds(gs, is) : FMR(is, u) <= limit } })

AUC(gs, is) ==
    IF gs = << >> \/ is = << >> THEN 0
    ELSE (Cardinality({ p \in (1..Len(gs)) \X (1..Len(is)) : gs[p[1]] > is[p[2]] }) * Scale)
             \div (Len(gs) * Len(is))

EvaluateMetrics(gs, is) ==
    [ key \in MetricKeys |->
        CASE key = "EER"    -> MinOf({ MaxOf2(FMR(is, t), FNMR(gs, t)) : t \in Thresholds(gs, is) })
          [] key = "AUC"    -> AUC(gs, is)
          [] key = "g-mean" -> Mean(gs)
          [] key = "i-mean" -> Mean(is)
          [] key = "FMR100" -> FMRAt(gs, is, Scale \div 100)
          [] key = "FMR10"  -> FMRAt(gs, is, Scale \div 10) ]


----------------------------------------------------------------------------
(* Inputs: command lines and data sets *)

ArgvSet ==
    { [ data_dir |-> NoFlag, model_dir |-> NoFlag, pretrained |-> NoFlag ],
      [ data_dir |-> Flag(<< "data", "/", "test" >>), model_dir |-> Flag(<< "m" >>),
        pretrained |-> Flag(<< "best" >>) ],
      [ data_dir |-> NoFlag, model_dir |-> Flag(<< "m", "/" >>), pretrained |-> NoFlag ],
      [ data_dir |-> NoFlag, model_dir |-> Flag(<< >>), pretrained |-> Flag(<< "best" >>) ],
      [ data_dir |-> NoFlag, model_dir |-> NoFlag,
        pretrained |-> Flag(<< "/", "tmp", "/", "w" >>) ] }

\* the values of the variables that are not assigned yet
NoArgs == [ data_dir |-> << >>, model_dir |-> << >>, pretrained |-> << >> ]
NoLoader == [ created |-> FALSE, data_dir |-> << >>, batch_size |-> 0, workers |-> 0 ]
NoWeights == [ source |-> "none", seed |-> 0, path |-> << >> ]
NoNet == [ constructed |-> FALSE, identities |-> 0, device |-> "unset", weights |-> NoWeights ]
NoBatch == [ i |-> -1, gen_target |-> << >>, gen_masked |-> << >>, gen_unmasked |-> << >>,
             imp_target |-> << >>, imp_masked |-> << >>, imp_unmasked |-> << >> ]
NoCall == [ img |-> << >>, data |-> << >>, target |-> << >>, inference |-> FALSE,
            gen |-> 0, out |-> "none" ]
NoMetricsArgs == [ model_dir |-> << >>, gscores |-> << >>, iscores |-> << >>,
                   clf_name |-> "", print_results |-> FALSE ]
NoMetrics == [ key \in { } |-> 0 ]

\* one side (genuine or impostor) of a batch: target is the pair of identity
\* tensors, masked and unmasked hold one image (one pixel) per row
Side(t0, t1, m, u) == [ target |-> << t0, t1 >>, masked |-> m, unmasked |-> u ]

BatchPool ==
    { [ gen |-> Side(<< 7 >>, << 7 >>, << 0 >>, << 255 >>),
        imp |-> Side(<< 7 >>, << 9 >>, << 0 >>, << 100 >>) ],
      [ gen |-> Side(<< 3, 4 >>, << 3, 4 >>, << 100, 200 >>, << 100, 0 >>),
        imp |-> Side(<< 3, 4 >>, << 5, 6 >>, << 255, 0 >>, << 200, 200 >>) ],
      [ gen |-> Side(<< 600 >>, << 600 >>, << 200 >>, << 200 >>),
        imp |-> Side(<< 600 >>, << 0 >>, << 255 >>, << 255 >>) ] }

Datasets == UNION { [ 1..n -> BatchPool ] : n \in 0..MaxBatches }

Entropy == 1..MaxEntropy

Terminal == { "done", "crashed" }

Runs == DOMAIN pc

InitRuns(R, A) ==
    /\ argv \in A
    /\ dataset \in Datasets
    /\ cuda_available \in BOOLEAN
    /\ turn = 1
    /\ pc = [ r \in R |-> "parse_args" ]
    /\ args = [ r \in R |-> NoArgs ]
    /\ device = [ r \in R |-> "unset" ]
    /\ rng \in [ R -> { [ cpu |-> e, cuda |-> e ] : e \in Entropy } ]
    /\ logger = [ r \in R |-> [ path |-> << >>, lines |-> << >> ] ]
    /\ test_loader = [ r \in R |-> NoLoader ]
    /\ net = [ r \in R |-> NoNet ]
    /\ it = [ r \in R |-> 0 ]
    /\ batch = [ r \in R |-> NoBatch ]
    /\ emb = [ r \in R |-> [ gen_emb1 |-> << >>, gen_emb2 |-> << >>,
                             imp_emb1 |-> << >>, imp_emb2 |-> << >> ] ]
    /\ dist = [ r \in R |-> [ g_dist |-> << >>, i_dist |-> << >> ] ]
    /\ gscores = [ r \in R |-> << >> ]
    /\ iscores = [ r \in R |-> << >> ]
    /\ test_metrics = [ r \in R |-> NoMetrics ]
    /\ io = [ r \in R |-> [ reads |-> << >>, writes |-> << >> ] ]
    /\ calls = [ r \in R |-> [ create_dataloader |-> 0, FocusFace |-> 0,
                               load_checkpoint |-> 0, net |-> 0,
                               evaluate_metrics |-> 0, save_dict_to_json |-> 0,
                               last_net |-> NoCall, metrics_args |-> NoMetricsArgs,
                               metrics_result |-> NoMetrics ] ]
    /\ hist = [ r \in R |-> [ g |-> << >>, i |-> << >> ] ]
    /\ trace = [ r \in R |-> << >> ]

\* one run of the script
Init == InitRuns({ 1 }, ArgvSet)

\* the script run twice on the same command line, data and machine
InitPair == InitRuns({ 1, 2 }, { a \in ArgvSet : ~ a.model_dir.given /\ ~ a.pretrained.given })

----------------------------------------------------------------------------
(* Statements of the main block, lines 108-141 *)

\* runs are stepped side by side: the turn passes to a run that has not
\* ended, if there is another one
Turn(r) ==
    /\ turn = r
    /\ turn' = IF \E q \in Runs \ { r } : pc[q] \notin Terminal
               THEN CHOOSE q \in Runs \ { r } : pc[q] \notin Terminal
               ELSE r

inputs == << argv, dataset, cuda_available >>

Goto(r, label) == pc' = [ pc EXCEPT ![r] = label ]

\* the statement that follows each statement: the main block top to bottom
\* (lines 112-141), the body of the loop of evaluate in a cycle (lines 82-103)
\* and the return statement after the loop (line 105)
StatementOrder(stmt) ==
    CASE stmt = "parse_args"        -> "seed"
      [] stmt = "seed"              -> "set_logger"
      [] stmt = "set_logger"        -> "create_dataloader"
      [] stmt = "create_dataloader" -> "construct_net"
      [] stmt = "construct_net"     -> "load_checkpoint"
      [] stmt = "load_checkpoint"   -> "evaluate"
      [] stmt = "evaluate"          -> "fetch"
      [] stmt = "fetch"             -> "gen_emb1"
      [] stmt = "gen_emb1"          -> "gen_emb2"
      [] stmt = "gen_emb2"          -> "normalize_gen"
      [] stmt = "normalize_gen"     -> "imp_emb1"
      [] stmt = "imp_emb1"          -> "imp_emb2"
      [] stmt = "imp_emb2"          -> "normalize_imp"
      [] stmt = "normalize_imp"     -> "g_dist"
      [] stmt = "g_dist"            -> "i_dist"
      [] stmt = "i_dist"            -> "extend_g"
      [] stmt = "extend_g"          -> "extend_i"
      [] stmt = "extend_i"          -> "fetch"
      [] stmt = "loop_exit"         -> "evaluate_metrics"
      [] stmt = "evaluate_metrics"  -> "save"
      [] stmt = "save"              -> "done"

\* a script that writes its file without computing the metrics
SuccessorSkipMetrics(stmt) ==
    IF stmt = "loop_exit" THEN "save" ELSE StatementOrder(stmt)

\* where control goes when stmt has run to its end
Successor(stmt) == StatementOrder(stmt)

\* statement stmt has run to its end: on to the next one
Finish(r, stmt) ==
    /\ pc' = [ pc EXCEPT ![r] = Successor(stmt) ]
    /\ trace' = [ trace EXCEPT ![r] = Append(@, stmt) ]

Log(r, msgs) == logger' = [ logger EXCEPT ![r].lines = @ \o msgs ]

\* line 112: args = parser.parse_args()
MainParseArgs(r) ==
    /\ pc[r] = "parse_args"
    /\ Turn(r)
    /\ args' = [ args EXCEPT ![r] = ParseArgs(argv) ]
    /\ Finish(r, "parse_args")
    /\ UNCHANGED << inputs, device, rng, logger, test_loader, net, it, batch,
                    emb, dist, gscores, iscores, test_metrics, io, calls, hist >>

\* a seeding that leaves the generator as it was
ManualSeedSkipped(old, seed) == old

\* torch.manual_seed / torch.cuda.manual_seed: the generator's state
\* becomes a function of the seed alone
ManualSeed(old, seed) == seed % RngMod

\* lines 114-119
MainSeed(r) ==
    /\ pc[r] = "seed"
    /\ Turn(r)
    /\ IF cuda_available
       THEN /\ device' = [ device EXCEPT ![r] = "cuda" ]
            /\ rng' = [ rng EXCEPT ![r] = [ cpu  |-> ManualSeed(@.cpu, SEED),
                                            cuda |-> ManualSeed(@.cuda, SEED) ] ]
       ELSE /\ device' = [ device EXCEPT ![r] = "cpu" ]
            /\ rng' = [ rng EXCEPT ![r].cpu = ManualSeed(@, SEED) ]
    /\ Finish(r, "seed")
    /\ UNCHANGED << inputs, args, logger, test_loader, net, it, batch, emb,
                    dist, gscores, iscores, test_metrics, io, calls, hist >>

\* lines 121-124: utils.set_logger, then the first log line
MainSetLogger(r) ==
    /\ pc[r] = "set_logger"
    /\ Turn(r)
    /\ logger' = [ logger EXCEPT ![r] =
                     [ path |-> LogPath(args[r]),
                       lines |-> << << "Loading the datasets ..." >> >> ] ]
    /\ Finish(r, "set_logger")
    /\ UNCHANGED << inputs, args, device, rng, test_loader, net, it, batch,
                    emb, dist, gscores, iscores, test_metrics, io, calls, hist >>

\* lines 125-127: dataloader.create_dataloader, then "- Done."
MainCreateDataloader(r) ==
    /\ pc[r] = "create_dataloader"
    /\ Turn(r)
    /\ test_loader' = [ test_loader EXCEPT ![r] =
                          [ created |-> TRUE,
                            data_dir |-> args[r].data_dir,
                            batch_size |-> batch_size,
                            workers |-> workers ] ]
    /\ calls' = [ calls EXCEPT ![r].create_dataloader = @ + 1 ]
    /\ io' = [ io EXCEPT ![r].reads =
                 Append(@, [ kind |-> "data", path |-> args[r].data_dir ]) ]
    /\ Log(r, << << "- Done." >> >>)
    /\ Finish(r, "create_dataloader")
    /\ UNCHANGED << inputs, args, device, rng, net, it, batch, emb, dist,
                    gscores, iscores, test_metrics, hist >>

\* the generator of the device the network is on
Gen(r) == IF device[r] = "cuda" THEN rng[r].cuda ELSE rng[r].cpu

Draw(r) ==
    rng' = IF device[r] = "cuda"
           THEN [ rng EXCEPT ![r].cuda = Advance(@) ]
           ELSE [ rng EXCEPT ![r].cpu = Advance(@) ]

\* lines 129-134: model.FocusFace(identities).to(device) with freshly drawn
\* weights, then the checkpoint's path and the log line naming it
MainConstructNet(r) ==
    /\ pc[r] = "construct_net"
    /\ Turn(r)
    /\ net' = [ net EXCEPT ![r] =
                  [ constructed |-> TRUE,
                    identities |-> identities, device |-> device[r],
                    weights |-> [ source |-> "init", seed |-> Gen(r),
                                  path |-> << >> ] ] ]
    /\ Draw(r)
    /\ calls' = [ calls EXCEPT ![r].FocusFace = @ + 1 ]
    /\ Log(r, << << "Loading parameters from " >> \o PretrainPath(args[r]) >>)
    /\ Finish(r, "construct_net")
    /\ UNCHANGED << inputs, args, device, test_loader, it, batch, emb, dist,
                    gscores, iscores, test_metrics, io, hist >>

\* lines 135-137: utils.load_checkpoint(pretrain_path, net), then the log line
MainLoadCheckpoint(r) ==
    /\ pc[r] = "load_checkpoint"
    /\ Turn(r)
    /\ net' = [ net EXCEPT ![r].weights =
                  [ source |-> "checkpoint", seed |-> 0,
                    path |-> PretrainPath(args[r]) ] ]
    /\ io' = [ io EXCEPT ![r].reads =
                 Append(@, [ kind |-> "checkpoint", path |-> PretrainPath(args[r]) ]) ]
    /\ calls' = [ calls EXCEPT ![r].load_checkpoint = @ + 1 ]
    /\ Log(r, << << "Start evaluation ..." >> >>)
    /\ Finish(r, "load_checkpoint")
    /\ UNCHANGED << inputs, args, device, rng, test_loader, it, batch, emb,
                    dist, gscores, iscores, test_metrics, hist >>

\* the dictionary with one key dropped
SavedDictPartial(d) == [ key \in (DOMAIN d) \ { "EER" } |-> d[key] ]

\* what save_dict_to_json is handed: test_metrics itself
SavedDict(d) == d

\* lines 139-141: utils.save_dict_to_json(test_metrics, save_path)
MainSave(r) ==
    /\ pc[r] = "save"
    /\ Turn(r)
    /\ io' = [ io EXCEPT ![r].writes =
                 Append(@, [ path |-> SavePath(args[r]),
                             content |-> SavedDict(test_metrics[r]) ]) ]
    /\ calls' = [ calls EXCEPT ![r].save_dict_to_json = @ + 1 ]
    /\ Finish(r, "save")
    /\ UNCHANGED << inputs, args, device, rng, logger, test_loader, net, it,
                    batch, emb, dist, gscores, iscores, test_metrics, hist >>


----------------------------------------------------------------------------
(* evaluate, lines 66-105 *)

\* line 80: gscores, iscores = [], []
EvalEnter(r) ==
    /\ pc[r] = "evaluate"
    /\ Turn(r)
    /\ gscores' = [ gscores EXCEPT ![r] = << >> ]
    /\ iscores' = [ iscores EXCEPT ![r] = << >> ]
    /\ Finish(r, "evaluate")
    /\ UNCHANGED << inputs, args, device, rng, logger, test_loader, net, it,
                    batch, emb, dist, test_metrics, io, calls, hist >>

\* a loop that stops after its first batch
LoopDoneEarly(r) == it[r] >= 1 \/ it[r] >= Len(dataset)

\* line 82: the data loader is exhausted
LoopDone(r) == it[r] >= Len(dataset)

\* lines 82-87: the next (gen, imp) of the loader, its tensors moved to the
\* device; the genuine target is target[0], the impostor target target[1]
EvalFetch(r) ==
    /\ pc[r] = "fetch"
    /\ Turn(r)
    /\ ~ LoopDone(r)
    /\ LET b == dataset[it[r] + 1]
       IN  batch' = [ batch EXCEPT ![r] =
                        [ i            |-> it[r],
                          gen_target   |-> b.gen.target[1],
                          gen_masked   |-> b.gen.masked,
                          gen_unmasked |-> b.gen.unmasked,
                          imp_target   |-> b.imp.target[2],
                          imp_masked   |-> b.imp.masked,
                          imp_unmasked |-> b.imp.unmasked ] ]
    /\ it' = [ it EXCEPT ![r] = @ + 1 ]
    /\ Finish(r, "fetch")
    /\ UNCHANGED << inputs, args, device, rng, logger, test_loader, net, emb,
                    dist, gscores, iscores, test_metrics, io, calls, hist >>

\* line 82, the loop's exit: on to the return statement of line 105
EvalLoopExit(r) ==
    /\ pc[r] = "fetch"
    /\ Turn(r)
    /\ LoopDone(r)
    /\ Finish(r, "loop_exit")
    /\ UNCHANGED << inputs, args, device, rng, logger, test_loader, net, it,
                    batch, emb, dist, gscores, iscores, test_metrics, io,
                    calls, hist >>

\* one call of generate_embeddings(net, target, data): the forward pass is
\* recorded with the image it was given and the generator it drew from
EmbedCall(r, target, data, out) ==
    /\ emb' = [ emb EXCEPT ![r] =
                  [ @ EXCEPT ![out] =
                      GenerateEmbeddings(net[r].weights, target, data, Gen(r)) ] ]
    /\ Draw(r)
    /\ calls' = [ calls EXCEPT ![r].net = @ + 1,
                               ![r].last_net =
                                   [ img |-> [ k \in 1..Len(data) |-> NormalizePixel(data[k]) ],
                                     data |-> data,
                                     target |-> target,
                                     inference |-> TRUE,
                                     gen |-> Gen(r),
                                     out |-> out ] ]
    /\ UNCHANGED << inputs, args, device, logger, test_loader, net, it, batch,
                    dist, gscores, iscores, test_metrics, io, hist >>

\* line 90
EvalGenEmb1(r) ==
    /\ pc[r] = "gen_emb1"
    /\ Turn(r)
    /\ EmbedCall(r, batch[r].gen_target, batch[r].gen_masked, "gen_emb1")
    /\ Finish(r, "gen_emb1")

\* line 91
EvalGenEmb2(r) ==
    /\ pc[r] = "gen_emb2"
    /\ Turn(r)
    /\ EmbedCall(r, batch[r].gen_target, batch[r].gen_unmasked, "gen_emb2")
    /\ Finish(r, "gen_emb2")

\* line 92
EvalNormalizeGen(r) ==
    /\ pc[r] = "normalize_gen"
    /\ Turn(r)
    /\ emb' = [ emb EXCEPT ![r].gen_emb1 = Normalize(@),
                           ![r].gen_emb2 = Normalize(@) ]
    /\ Finish(r, "normalize_gen")
    /\ UNCHANGED << inputs, args, device, rng, logger, test_loader, net, it,
                    batch, dist, gscores, iscores, test_metrics, io, calls,
                    hist >>

\* line 94
EvalImpEmb1(r) ==
    /\ pc[r] = "imp_emb1"
    /\ Turn(r)
    /\ EmbedCall(r, batch[r].imp_target, batch[r].imp_masked, "imp_emb1")
    /\ Finish(r, "imp_emb1")

\* line 95
EvalImpEmb2(r) ==
    /\ pc[r] = "imp_emb2"
    /\ Turn(r)
    /\ EmbedCall(r, batch[r].imp_target, batch[r].imp_unmasked, "imp_emb2")
    /\ Finish(r, "imp_emb2")

\* line 96
EvalNormalizeImp(r) ==
    /\ pc[r] = "normalize_imp"
    /\ Turn(r)
    /\ emb' = [ emb EXCEPT ![r].imp_emb1 = Normalize(@),
                           ![r].imp_emb2 = Normalize(@) ]
    /\ Finish(r, "normalize_imp")
    /\ UNCHANGED << inputs, args, device, rng, logger, test_loader, net, it,
                    batch, dist, gscores, iscores, test_metrics, io, calls,
                    hist >>

\* line 99
EvalGDist(r) ==
    /\ pc[r] = "g_dist"
    /\ Turn(r)
    /\ LET d == EmbeddingDist(emb[r].gen_emb1, emb[r].gen_emb2)
       IN  /\ dist' = [ dist EXCEPT ![r].g_dist = d ]
           /\ hist' = [ hist EXCEPT ![r].g =
                          Append(@, [ i |-> batch[r].i, scores |-> d ]) ]
    /\ Finish(r, "g_dist")
    /\ UNCHANGED << inputs, args, device, rng, logger, test_loader, net, it,
                    batch, emb, gscores, iscores, test_metrics, io, calls >>

\* line 100
EvalIDist(r) ==
    /\ pc[r] = "i_dist"
    /\ Turn(r)
    /\ LET d == EmbeddingDist(emb[r].imp_emb1, emb[r].imp_emb2)
       IN  /\ dist' = [ dist EXCEPT ![r].i_dist = d ]
           /\ hist' = [ hist EXCEPT ![r].i =
                          Append(@, [ i |-> batch[r].i, scores |-> d ]) ]
    /\ Finish(r, "i_dist")
    /\ UNCHANGED << inputs, args, device, rng, logger, test_loader, net, it,
                    batch, emb, gscores, iscores, test_metrics, io, calls >>

\* an extend that puts the new scores in front
ExtendFront(list, new) == new \o list

\* list.extend(new)
Extend(list, new) == list \o new

\* line 102
EvalExtendG(r) ==
    /\ pc[r] = "extend_g"
    /\ Turn(r)
    /\ gscores' = [ gscores EXCEPT ![r] = Extend(@, dist[r].g_dist) ]
    /\ Finish(r, "extend_g")
    /\ UNCHANGED << inputs, args, device, rng, logger, test_loader, net, it,
                    batch, emb, dist, iscores, test_metrics, io, calls, hist >>

\* line 103, then back to the head of the loop
EvalExtendI(r) ==
    /\ pc[r] = "extend_i"
    /\ Turn(r)
    /\ iscores' = [ iscores EXCEPT ![r] = Extend(@, dist[r].i_dist) ]
    /\ Finish(r, "extend_i")
    /\ UNCHANGED << inputs, args, device, rng, logger, test_loader, net, it,
                    batch, emb, dist, gscores, test_metrics, io, calls, hist >>

\* line 105 and the assignment of line 138: evaluate_metrics(model_dir,
\* gscores, iscores, clf_name='A', print_results=True), returned as it is
EvalMetrics(r) ==
    /\ pc[r] = "evaluate_metrics"
    /\ Turn(r)
    /\ test_metrics' = [ test_metrics EXCEPT ![r] =
                           EvaluateMetrics(gscores[r], iscores[r]) ]
    /\ calls' = [ calls EXCEPT ![r].evaluate_metrics = @ + 1,
                               ![r].metrics_result =
                                   EvaluateMetrics(gscores[r], iscores[r]),
                               ![r].metrics_args =
                                   [ model_dir |-> args[r].model_dir,
                                     gscores |-> gscores[r],
                                     iscores |-> iscores[r],
                                     clf_name |-> "A",
                                     print_results |-> TRUE ] ]
    /\ Finish(r, "evaluate_metrics")
    /\ UNCHANGED << inputs, args, device, rng, logger, test_loader, net, it,
                    batch, emb, dist, gscores, iscores, io, hist >>

----------------------------------------------------------------------------
(* Exceptions: nothing in the script catches one *)

\* an exception swallowed: the script goes on to write its file
RaiseSwallowed(r) ==
    /\ Goto(r, "save")
    /\ UNCHANGED << inputs, args, device, rng, logger, test_loader, net, it,
                    batch, emb, dist, gscores, iscores, test_metrics, io,
                    calls, hist, trace >>

\* an exception raised by the statement at pc[r] leaves the process through
\* the top of the stack: the statement's assignment does not happen
Raise(r) ==
    /\ Goto(r, "crashed")
    /\ UNCHANGED << inputs, args, device, rng, logger, test_loader, net, it,
                    batch, emb, dist, gscores, iscores, test_metrics, io,
                    calls, hist, trace >>

\* any statement may raise (a missing file, a shape mismatch, ...)
Fail(r) ==
    /\ pc[r] \notin Terminal
    /\ Turn(r)
    /\ Raise(r)

----------------------------------------------------------------------------
(* The script *)

Next ==
    \/ \E r \in Runs : MainParseArgs(r)
    \/ \E r \in Runs : MainSeed(r)
    \/ \E r \in Runs : MainSetLogger(r)
    \/ \E r \in Runs : MainCreateDataloader(r)
    \/ \E r \in Runs : MainConstructNet(r)
    \/ \E r \in Runs : MainLoadCheckpoint(r)
    \/ \E r \in Runs : EvalEnter(r)
    \/ \E r \in Runs : EvalFetch(r)
    \/ \E r \in Runs : EvalLoopExit(r)
    \/ \E r \in Runs : EvalGenEmb1(r)
    \/ \E r \in Runs : EvalGenEmb2(r)
    \/ \E r \in Runs : EvalNormalizeGen(r)
    \/ \E r \in Runs : EvalImpEmb1(r)
    \/ \E r \in Runs : EvalImpEmb2(r)
    \/ \E r \in Runs : EvalNormalizeImp(r)
    \/ \E r \in Runs : EvalGDist(r)
    \/ \E r \in Runs : EvalIDist(r)
    \/ \E r \in Runs : EvalExtendG(r)
    \/ \E r \in Runs : EvalExtendI(r)
    \/ \E r \in Runs : EvalMetrics(r)
    \/ \E r \in Runs : MainSave(r)
    \/ \E r \in Runs : Fail(r)

Spec == Init /\ [][Next]_vars

SpecPair == InitPair /\ [][Next]_vars


----------------------------------------------------------------------------
(* Properties *)

RECURSIVE Count(_, _)
Count(s, x) ==
    IF s = << >> THEN 0
    ELSE (IF Head(s) = x THEN 1 ELSE 0) + Count(Tail(s), x)

RECURSIVE Flatten(_)
Flatten(ss) == IF ss = << >> THEN << >> ELSE Head(ss) \o Flatten(Tail(ss))

LastStmt(r) == IF trace[r] = << >> THEN "none" ELSE Last(trace[r])

InRange(x) == -Scale <= x /\ x <= Scale

\* the embedding rows a run holds
RowsHeld(r) ==
    Range(emb[r].gen_emb1) \cup Range(emb[r].gen_emb2)
        \cup Range(emb[r].imp_emb1) \cup Range(emb[r].imp_emb2)

\* C1: the score of every pair of normalised embedding rows lies in
\* [-1, 1], and so does every element of g_dist, i_dist, gscores and iscores
\* at every point of the batch loop.
C1_ScoresInRange ==
    \A r \in Runs :
        /\ LastStmt(r) \in { "normalize_gen", "normalize_imp" }
              => \A a \in RowsHeld(r) : \A b \in RowsHeld(r) :
                    /\ SumSq(a) <= Scale * Scale
                    /\ InRange(Sim(a, b))
        /\ \A k \in 1..Len(gscores[r]) : InRange(gscores[r][k])
        /\ \A k \in 1..Len(iscores[r]) : InRange(iscores[r][k])
        /\ \A k \in 1..Len(dist[r].g_dist) : InRange(dist[r].g_dist[k])
        /\ \A k \in 1..Len(dist[r].i_dist) : InRange(dist[r].i_dist[k])

\* two batches accumulated, with scores that differ
C1_Witness ==
    \E r \in Runs :
        /\ pc[r] = "done"
        /\ Len(gscores[r]) >= 2
        /\ Len(iscores[r]) >= 2
        /\ \E k \in 1..Len(gscores[r]) : gscores[r][k] < Scale
        /\ \E k \in 1..Len(iscores[r]) : iscores[r][k] < Scale \div 2

\* C2: two runs on the same command line, data and checkpoint, both seeded
\* with 230, hold equal gscores and equal iscores after every batch and pass
\* equal lists to evaluate_metrics.
C2_Reproducible ==
    \A r1 \in Runs : \A r2 \in Runs :
        /\ trace[r1] = trace[r2]
              => /\ gscores[r1] = gscores[r2]
                 /\ iscores[r1] = iscores[r2]
                 /\ dist[r1] = dist[r2]
        /\ (calls[r1].evaluate_metrics = 1 /\ calls[r2].evaluate_metrics = 1)
              => /\ calls[r1].metrics_args.gscores = calls[r2].metrics_args.gscores
                 /\ calls[r1].metrics_args.iscores = calls[r2].metrics_args.iscores

\* both runs ended with scores, having started from different generator states
C2_Witness ==
    /\ Runs = { 1, 2 }
    /\ \A r \in Runs : pc[r] = "done" /\ Len(gscores[r]) >= 2
    /\ rng[1].cuda # rng[2].cuda

ScoresOf(h, n) == Flatten([ k \in 1..n |-> h[k].scores ])

\* the lists are the scores of the batches accumulated, batch by batch
C3_Order ==
    \A r \in Runs :
        /\ \A k \in 1..Len(hist[r].g) : hist[r].g[k].i = k - 1
        /\ \A k \in 1..Len(hist[r].i) : hist[r].i[k].i = k - 1
        /\ batch[r].i >= 0 =>
              /\ batch[r].i = it[r] - 1
              /\ batch[r].gen_masked = dataset[it[r]].gen.masked
              /\ batch[r].imp_unmasked = dataset[it[r]].imp.unmasked
        /\ gscores[r] = ScoresOf(hist[r].g, Count(trace[r], "extend_g"))
        /\ iscores[r] = ScoresOf(hist[r].i, Count(trace[r], "extend_i"))

\* a step leaves what the lists hold where it is
C3_Kept ==
    \A r \in Runs :
        /\ IsPrefix(gscores[r], gscores'[r])
        /\ IsPrefix(iscores[r], iscores'[r])

\* C3: after any number of batches gscores (iscores) is the concatenation, in
\* the loader's batch order, of each batch's genuine (impostor) scores as
\* embedding_dist returned them; a later batch only appends.
C3_StableOrder == [] C3_Order /\ [][C3_Kept]_vars

\* two batches accumulated whose score lists differ
C3_Witness ==
    \E r \in Runs :
        /\ pc[r] = "done"
        /\ Len(hist[r].g) = 2
        /\ hist[r].g[1].scores # hist[r].g[2].scores
        /\ hist[r].i[1].scores # hist[r].i[2].scores

Prelude ==
    << "parse_args", "seed", "set_logger", "create_dataloader", "construct_net",
       "load_checkpoint", "evaluate" >>

BatchStmts ==
    << "fetch", "gen_emb1", "gen_emb2", "normalize_gen", "imp_emb1", "imp_emb2",
       "normalize_imp", "g_dist", "i_dist", "extend_g", "extend_i" >>

ExpectedTrace(n) ==
    Prelude \o Flatten([ k \in 1..n |-> BatchStmts ])
            \o << "loop_exit", "evaluate_metrics", "save" >>

\* C4: the statements run in one fixed order, each once (the loop body once
\* per batch): data, model and checkpoint, the batches, the metrics, the file;
\* the file is never written before evaluate has returned.
C4_LinearOrder ==
    \A r \in Runs :
        /\ IsPrefix(trace[r], ExpectedTrace(Len(dataset)))
        /\ calls[r].create_dataloader = Count(trace[r], "create_dataloader")
        /\ calls[r].load_checkpoint = Count(trace[r], "load_checkpoint")
        /\ calls[r].evaluate_metrics = Count(trace[r], "evaluate_metrics")
        /\ calls[r].save_dict_to_json = Count(trace[r], "save")
        /\ Len(io[r].writes) = calls[r].save_dict_to_json
        /\ io[r].writes # << >> =>
              /\ calls[r].evaluate_metrics = 1
              /\ test_metrics[r] = calls[r].metrics_result

\* a whole run over the longest data set
C4_Witness ==
    \E r \in Runs :
        /\ pc[r] = "done"
        /\ Len(dataset) = MaxBatches
        /\ trace[r] = ExpectedTrace(MaxBatches)
        /\ Len(io[r].writes) = 1

RunState(r) ==
    << args[r], device[r], rng[r], logger[r], test_loader[r], net[r], it[r],
       batch[r], emb[r], dist[r], gscores[r], iscores[r], test_metrics[r],
       io[r], calls[r], hist[r], trace[r] >>

C5_Step ==
    \A r \in Runs :
        \* a run that has crashed does nothing more
        /\ pc[r] = "crashed" => (pc'[r] = "crashed" /\ RunState(r)' = RunState(r))
        \* a statement that does not run to its end ends the run, with
        \* nothing assigned
        /\ (pc'[r] # pc[r] /\ trace'[r] = trace[r])
              => (pc'[r] = "crashed" /\ RunState(r)' = RunState(r))

C5_NoFile ==
    \A r \in Runs :
        /\ Count(trace[r], "save") = 0 => io[r].writes = << >>
        /\ (pc[r] = "crashed" /\ Count(trace[r], "evaluate_metrics") = 0)
              => (test_metrics[r] = NoMetrics /\ io[r].writes = << >>)

\* C5: a failure at any statement ends the run there: the statement is not
\* retried, no later statement runs, and no metrics file is written unless
\* the failure came after the serialisation.
C5_FailStop == [] C5_NoFile /\ [][C5_Step]_vars

\* a run that failed inside the batch loop, after one batch was accumulated
C5_Witness ==
    \E r \in Runs :
        /\ pc[r] = "crashed"
        /\ it[r] = 2
        /\ LastStmt(r) = "normalize_gen"
        /\ gscores[r] # << >>
        /\ io[r].writes = << >>


StartsWithSep(p) == p # << >> /\ Head(p) = Sep

EndsWith(p, q) == Len(q) <= Len(p) /\ SubSeq(p, Len(p) - Len(q) + 1, Len(p)) = q

\* a path with every run of separators reduced to one
RECURSIVE Collapse(_)
Collapse(p) ==
    IF Len(p) < 2 THEN p
    ELSE IF p[1] = Sep /\ p[2] = Sep THEN Collapse(Tail(p))
    ELSE << p[1] >> \o Collapse(Tail(p))

\* <dir>/<name>: the file called name in directory dir (the working
\* directory when dir is empty), whether or not dir is written with a
\* closing separator
InDir(dir, name) == IF dir = << >> THEN name ELSE Collapse(dir \o << Sep >> \o name)

CkptName(a) == a.pretrained \o << ".pth.tar" >>

MetricsName(a) == << "test_metrics_" >> \o a.pretrained \o << ".json" >>

CheckpointReads(r) ==
    { io[r].reads[k].path : k \in { j \in 1..Len(io[r].reads) : io[r].reads[j].kind = "checkpoint" } }

MetricsWrites(r) == { io[r].writes[k].path : k \in 1..Len(io[r].writes) }

DefaultsApplied(r) ==
    (Count(trace[r], "parse_args") = 1 /\ ~ argv.data_dir.given
         /\ ~ argv.model_dir.given /\ ~ argv.pretrained.given)
      => args[r] = [ data_dir   |-> << "data", "/", "val" >>,
                     model_dir  |-> << "result", "/", "base_model" >>,
                     pretrained |-> << "last" >> ]

LogsInModelDir(r) ==
    Count(trace[r], "set_logger") = 1
       => logger[r].path = InDir(args[r].model_dir, << "test.log" >>)

WritesInModelDir(r) ==
    /\ Len(io[r].writes) <= 1
    /\ \A q \in MetricsWrites(r) :
          /\ q = InDir(args[r].model_dir, MetricsName(args[r]))
          /\ EndsWith(q, MetricsName(args[r]))

C7_FixedKeys ==
    \A r \in Runs : \A k \in 1..Len(io[r].writes) :
        /\ calls[r].evaluate_metrics = 1
        /\ io[r].writes[k].content = calls[r].metrics_result
        /\ DOMAIN io[r].writes[k].content =
              { "EER", "AUC", "g-mean", "i-mean", "FMR100", "FMR10" }

\* a metrics file written from non-empty score lists
C7_Witness ==
    \E r \in Runs :
        /\ pc[r] = "done"
        /\ Len(io[r].writes) = 1
        /\ Len(gscores[r]) >= 2
        /\ io[r].writes[1].content["AUC"] > 0

Negated(v) == [ k \in 1..Len(v) |-> 0 - v[k] ]

IsUnit(v) == SumSq(v) = Scale * Scale

\* the scores embedding_dist owes for two batches of rows
ScoresOwed(e1, e2, d) ==
    /\ Len(d) = Len(e1)
    /\ \A k \in 1..Len(e1) :
          /\ d[k] = Scale - (Cdist(e1[k], e2[k]) \div 2)
          /\ e1[k] = e2[k] => d[k] = Scale
          /\ (IsUnit(e1[k]) /\ e2[k] = Negated(e1[k])) => d[k] = 0

RECURSIVE RowsSeen(_, _, _)
RowsSeen(ds, n, side) ==
    IF n = 0 THEN 0
    ELSE Len(ds[n][side].masked) + RowsSeen(ds, n - 1, side)

\* C8: embedding_dist returns one score per row, the i-th being
\* 1 - distance(embed1[i], embed2[i]) / 2 (1 for equal rows, 0 for opposite
\* unit rows); len(gscores) and len(iscores) are the numbers of genuine and
\* impostor rows of the batches accumulated.
C8_PerRow ==
    \A r \in Runs :
        /\ LastStmt(r) = "g_dist"
              => /\ ScoresOwed(emb[r].gen_emb1, emb[r].gen_emb2, dist[r].g_dist)
                 /\ Len(dist[r].g_dist) = Len(batch[r].gen_masked)
        /\ LastStmt(r) = "i_dist"
              => /\ ScoresOwed(emb[r].imp_emb1, emb[r].imp_emb2, dist[r].i_dist)
                 /\ Len(dist[r].i_dist) = Len(batch[r].imp_masked)
        /\ Len(gscores[r]) = RowsSeen(dataset, Count(trace[r], "extend_g"), "gen")
        /\ Len(iscores[r]) = RowsSeen(dataset, Count(trace[r], "extend_i"), "imp")

\* a batch of two rows scored, one pair of rows equal
C8_Witness ==
    \E r \in Runs :
        /\ LastStmt(r) = "g_dist"
        /\ Len(dist[r].g_dist) = 2
        /\ \E k \in 1..2 : dist[r].g_dist[k] = Scale
        /\ \E k \in 1..2 : dist[r].g_dist[k] < Scale

\* a pair of opposite unit rows scored
C8_Opposite ==
    \E r \in Runs :
        /\ LastStmt(r) \in { "g_dist", "i_dist" }
        /\ \E k \in 1..Len(emb[r].gen_emb1) :
              IsUnit(emb[r].gen_emb1[k]) /\ emb[r].gen_emb2[k] = Negated(emb[r].gen_emb1[k])

AtLoopHead(r) == LastStmt(r) \in { "evaluate", "extend_i", "loop_exit" }

\* C9: batches are processed one at a time in the loader's order, each with
\* four forward passes and one extension of each list before the next is
\* fetched; evaluate_metrics is called once, after the loader is exhausted,
\* with the complete lists.
C9_Sequential ==
    \A r \in Runs :
        /\ it[r] = Count(trace[r], "fetch")
        /\ it[r] <= Len(dataset)
        /\ calls[r].net <= 4 * it[r]
        /\ it[r] >= 1 => calls[r].net >= 4 * (it[r] - 1)
        /\ it[r] - 1 <= Count(trace[r], "extend_i")
        /\ Count(trace[r], "extend_i") <= Count(trace[r], "extend_g")
        /\ Count(trace[r], "extend_g") <= it[r]
        /\ AtLoopHead(r) =>
              /\ calls[r].net = 4 * it[r]
              /\ Count(trace[r], "extend_g") = it[r]
              /\ Count(trace[r], "extend_i") = it[r]
        /\ batch[r].i >= 0 =>
              /\ batch[r].gen_masked = dataset[it[r]].gen.masked
              /\ batch[r].gen_unmasked = dataset[it[r]].gen.unmasked
              /\ batch[r].imp_masked = dataset[it[r]].imp.masked
              /\ batch[r].imp_unmasked = dataset[it[r]].imp.unmasked
        /\ LastStmt(r) = "gen_emb1" => calls[r].last_net.data = batch[r].gen_masked
        /\ LastStmt(r) = "gen_emb2" => calls[r].last_net.data = batch[r].gen_unmasked
        /\ LastStmt(r) = "imp_emb1" => calls[r].last_net.data = batch[r].imp_masked
        /\ LastStmt(r) = "imp_emb2" => calls[r].last_net.data = batch[r].imp_unmasked
        /\ calls[r].evaluate_metrics <= 1
        /\ calls[r].evaluate_metrics = 1 =>
              /\ it[r] = Len(dataset)
              /\ calls[r].net = 4 * Len(dataset)
              /\ calls[r].metrics_args.gscores = ScoresOf(hist[r].g, Len(dataset))
              /\ calls[r].metrics_args.iscores = ScoresOf(hist[r].i, Len(dataset))
              /\ Len(dataset) = 0 =>
                    /\ calls[r].metrics_args.gscores = << >>
                    /\ calls[r].metrics_args.iscores = << >>

\* evaluate_metrics called after the longest data set was worked through
C9_Witness ==
    \E r \in Runs :
        /\ calls[r].evaluate_metrics = 1
        /\ Len(dataset) = MaxBatches
        /\ calls[r].net = 4 * MaxBatches
        /\ Len(calls[r].metrics_args.gscores) > MaxBatches

\* evaluate_metrics called on two empty lists
C9_Empty ==
    \E r \in Runs :
        /\ calls[r].evaluate_metrics = 1
        /\ Len(dataset) = 0
        /\ calls[r].metrics_args.gscores = << >>

EmbedStmts == { "gen_emb1", "gen_emb2", "imp_emb1", "imp_emb2" }

\* the normalisation over the whole pixel range
PixelsNormalised ==
    /\ \A v \in 0..MaxPixel :
          /\ NormalizePixel(v) * MaxPixel = (2 * v - MaxPixel) * PixDen
          /\ -PixDen <= NormalizePixel(v) /\ NormalizePixel(v) <= PixDen
          /\ v < MaxPixel => NormalizePixel(v) < NormalizePixel(v + 1)
    /\ NormalizePixel(0) = -PixDen
    /\ NormalizePixel(MaxPixel) = PixDen

\* C10: generate_embeddings maps every pixel v of 0..255 to
\* ((v / 255) - 0.5) / 0.5, which lies in [-1, 1], is -1 at 0 and 1 at 255 and
\* increases with v; it runs the network once, in inference mode, on the
\* normalised image and returns the second component of its output unchanged.
C10_PixelNorm ==
    \A r \in Runs :
          /\ calls[r].net = Count(trace[r], "gen_emb1") + Count(trace[r], "gen_emb2")
                              + Count(trace[r], "imp_emb1") + Count(trace[r], "imp_emb2")
          /\ LastStmt(r) \in EmbedStmts =>
                LET c == calls[r].last_net
                IN  /\ PixelsNormalised
                    /\ c.out = LastStmt(r)
                    /\ c.inference
                    /\ Len(c.img) = Len(c.data)
                    /\ \A k \in 1..Len(c.data) :
                          /\ c.data[k] \in 0..MaxPixel
                          /\ c.img[k] * MaxPixel = (2 * c.data[k] - MaxPixel) * PixDen
                          /\ emb[r][c.out][k] =
                                Net(net[r].weights, c.img[k], c.target[k], TRUE, c.gen)[2]

\* a forward pass on a batch holding the pixels 0 and 255
C10_Witness ==
    \E r \in Runs :
        /\ LastStmt(r) = "imp_emb1"
        /\ calls[r].last_net.data = << 255, 0 >>
        /\ calls[r].last_net.img = << PixDen, -PixDen >>


====
